---- MODULE Spec2Model ----
(***************************************************************************)
(* Text-to-SQL pipeline: the generate / validate_and_execute / repair /    *)
(* explain graph of app/graph_runner.py, the run_pipeline loop of          *)
(* app/runner.py and the text functions of app/safety.py.                  *)
(*                                                                         *)
(* A text (Python str) is a sequence of characters, each a string.         *)
(***************************************************************************)
EXTENDS Integers, Sequences, FiniteSets, TLC

VARIABLES
    pipeline,            \* which entry point runs: "graph" | "runner" | "none"
    pc,                  \* the node / program point that runs next
    max_repairs,         \* State.max_repairs / run_pipeline(max_repairs=...)
    date_columns,        \* State.date_columns
    date_bounds,         \* State.date_bounds
    sql,                 \* State.sql / local sql
    safe,                \* State.safe / local safe
    df,                  \* State.df / local df: None, "empty" or "rows"
    error,               \* State.error / local error
    repair_attempts,     \* State.repair_attempts / local repair_attempts
    explanation,         \* State.explanation / local explanation
    date_range_message,  \* State.date_range_message
    candidate,           \* the text the latest validate/execute step started from
    engine_calls,        \* the con.execute calls of the latest validate/execute step
    llm_calls,           \* number of generator invocations so far
    ve_count,            \* number of validate/execute steps so far
    repair_context,      \* previous_sql and error of the repair_sql call of the step taken last
    step,                \* the step taken last
    text,                \* input of the pure text functions
    embedded,            \* how text was built
    verdict              \* result of the pure text function

vars == <<pipeline, pc, max_repairs, date_columns, date_bounds, sql, safe, df,
          error, repair_attempts, explanation, date_range_message, candidate,
          engine_calls, llm_calls, ve_count, repair_context, step, text, embedded,
          verdict>>

pipeline_vars == <<pipeline, pc, max_repairs, date_columns, date_bounds, sql,
                   safe, df, error, repair_attempts, explanation,
                   date_range_message, candidate, engine_calls, llm_calls,
                   ve_count, repair_context, step>>

text_vars == <<text, embedded, verdict>>

None == "None"

\* Python evaluates an argument, and the right-hand side of an assignment, once.
\* CHOOSE r \in {e : v \in {x}} : TRUE is e with v the value of x, computed once.

(***************************************************************************)
(* Characters                                                              *)
(***************************************************************************)
UpperLetters == <<"A","B","C","D","E","F","G","H","I","J","K","L","M",
                  "N","O","P","Q","R","S","T","U","V","W","X","Y","Z">>
LowerLetters == <<"a","b","c","d","e","f","g","h","i","j","k","l","m",
                  "n","o","p","q","r","s","t","u","v","w","x","y","z">>
Digits == {"0","1","2","3","4","5","6","7","8","9"}

LetterIndex == 1..Len(UpperLetters)

LowerOf == [c \in {UpperLetters[i] : i \in LetterIndex} |->
              LowerLetters[CHOOSE i \in LetterIndex : UpperLetters[i] = c]]
UpperOf == [c \in {LowerLetters[i] : i \in LetterIndex} |->
              UpperLetters[CHOOSE i \in LetterIndex : LowerLetters[i] = c]]

lower_char(c) == IF c \in DOMAIN LowerOf THEN LowerOf[c] ELSE c
upper_char(c) == IF c \in DOMAIN UpperOf THEN UpperOf[c] ELSE c

\* str.lower()
lower(s) == CHOOSE r \in {[i \in 1..Len(v) |-> lower_char(v[i])] : v \in {s}} : TRUE
\* str.upper()
upper(s) == CHOOSE r \in {[i \in 1..Len(v) |-> upper_char(v[i])] : v \in {s}} : TRUE

\* \s of the regular expressions, and what str.strip() removes
IsSpace(c) == c \in {" ", "\n", "\t"}
\* \w of the regular expressions
IsWord(c) == c \in DOMAIN LowerOf \/ c \in DOMAIN UpperOf \/ c \in Digits \/ c = "_"

\* index of the first character of s at or after i that is not in the class, or Len(s)+1
RECURSIVE SkipSpace(_, _)
SkipSpace(s, i) == IF i <= Len(s) /\ IsSpace(s[i]) THEN SkipSpace(s, i + 1) ELSE i

RECURSIVE SkipDigits(_, _)
SkipDigits(s, i) == IF i <= Len(s) /\ s[i] \in Digits THEN SkipDigits(s, i + 1) ELSE i

\* index of the last character of s at or before i that is not whitespace, or 0
RECURSIVE BackSpace(_, _)
BackSpace(s, i) == IF i >= 1 /\ IsSpace(s[i]) THEN BackSpace(s, i - 1) ELSE i

\* str.lstrip(), str.rstrip(), str.strip()
lstrip(s) == CHOOSE r \in {SubSeq(v, SkipSpace(v, 1), Len(v)) : v \in {s}} : TRUE
rstrip(s) == CHOOSE r \in {SubSeq(v, 1, BackSpace(v, Len(v))) : v \in {s}} : TRUE
strip(s) == rstrip(lstrip(s))

\* str.rstrip(";")
RECURSIVE BackSemis(_, _)
BackSemis(s, i) == IF i >= 1 /\ s[i] = ";" THEN BackSemis(s, i - 1) ELSE i
rstrip_semicolons(s) == CHOOSE r \in {SubSeq(v, 1, BackSemis(v, Len(v))) : v \in {s}} : TRUE

\* w occurs in s starting at index i
StartsAt(s, i, w) == i >= 1 /\ i + Len(w) - 1 <= Len(s) /\ SubSeq(s, i, i + Len(w) - 1) = w
\* w in s
Contains(s, w) == \E v \in {s} : \E i \in 1..Len(v) : StartsAt(v, i, w)
\* \b at the boundary between s[i-1] and s[i]
WordBoundary(s, i) ==
    LET before == i - 1 >= 1 /\ i - 1 <= Len(s) /\ IsWord(s[i - 1])
        after == i >= 1 /\ i <= Len(s) /\ IsWord(s[i])
    IN before # after
\* \bw\b matched case-insensitively at index i of s, whose lower-cased text is ls
WordAt(s, ls, i, w) == StartsAt(ls, i, w) /\ WordBoundary(s, i) /\ WordBoundary(s, i + Len(w))
\* a text with its lower-cased form, for the patterns matched under re.IGNORECASE
WithLower(s) == {<<v, lower(v)>> : v \in {s}}

(***************************************************************************)
(* Words of the texts                                                      *)
(***************************************************************************)
W_select == <<"s","e","l","e","c","t">>
W_sql == <<"s","q","l">>
\* the backquote character is written "bq"
W_fence == <<"bq","bq","bq">>
W_your_table == <<"y","o","u","r","_","t","a","b","l","e">>
W_my_table == <<"m","y","_","t","a","b","l","e">>
W_interval == <<"i","n","t","e","r","v","a","l">>
W_week == <<"w","e","e","k">>
W_date == <<"d","a","t","e">>
W_now == <<"n","o","w">>
W_current_date == <<"c","u","r","r","e","n","t","_","d","a","t","e">>
W_INTERVAL_ == <<"I","N","T","E","R","V","A","L"," ">>
W__WEEK == <<" ","W","E","E","K">>

\* src/app/safety.py, is_safe: banned
banned == { <<"i","n","s","e","r","t">>,
            <<"u","p","d","a","t","e">>,
            <<"d","e","l","e","t","e">>,
            <<"d","r","o","p">>,
            <<"a","l","t","e","r">>,
            <<"c","r","e","a","t","e">>,
            <<"a","t","t","a","c","h">>,
            <<"p","r","a","g","m","a">>,
            <<"g","r","a","n","t">>,
            <<"r","e","v","o","k","e">>,
            <<"c","o","p","y">> }

(***************************************************************************)
(* is_safe                                                                 *)
(***************************************************************************)
\* SAFE_SQL = re.compile(r"^\s*select\b", IGNORECASE).match(s)
SAFE_SQL_match(s) ==
    \E v \in {s} : \E ls \in {lower(v)}, i \in {SkipSpace(v, 1)} :
        StartsAt(ls, i, W_select) /\ WordBoundary(v, i + Len(W_select))

\* a faulty variant: the keyword scan without lower-casing the text
is_safe_no_lower(sql_text) ==
    \E stripped \in {strip(sql_text)} :
       /\ ~Contains(rstrip_semicolons(stripped), <<";">>)
       /\ SAFE_SQL_match(stripped)
       /\ ~\E b \in banned : Contains(sql_text, b)

is_safe(sql_text) ==
    \E stripped \in {strip(sql_text)}, lowered \in {lower(sql_text)} :
       /\ ~Contains(rstrip_semicolons(stripped), <<";">>)
       /\ SAFE_SQL_match(stripped)
       /\ ~\E b \in banned : Contains(lowered, b)

(***************************************************************************)
(* normalize_sql                                                           *)
(***************************************************************************)
\* re.search(r"(?is)\bselect\b[\s\S]*$", s): index of the match, or 0
RECURSIVE SelectSearchFrom(_, _, _)
SelectSearchFrom(s, ls, i) ==
    IF i > Len(s) THEN 0
    ELSE IF WordAt(s, ls, i, W_select) THEN i
    ELSE SelectSearchFrom(s, ls, i + 1)
SelectSearch(s) == CHOOSE r \in {SelectSearchFrom(v, ls, 1) : <<v, ls>> \in WithLower(s)} : TRUE

\* ^ under re.MULTILINE
LineStart(s, i) == i = 1 \/ s[i - 1] = "\n"
\* $ under re.MULTILINE
LineEnd(s, i) == i = Len(s) + 1 \/ (i <= Len(s) /\ s[i] = "\n")

\* the code-fence pattern of re.sub (fence \s* sql \s* at a line start | fence at a line
\* start | fence \s* at a line end) at index i: index after the match, or 0
FenceMatchEnd(s, ls, i) ==
    IF ~StartsAt(s, i, W_fence) THEN 0
    ELSE LET j == SkipSpace(s, i + 3)
             k == SkipSpace(s, i + 3)
             ends == {p \in (i + 3)..k : LineEnd(s, p)}
         IN IF LineStart(s, i) /\ StartsAt(ls, j, W_sql) THEN SkipSpace(s, j + 3)
            ELSE IF LineStart(s, i) THEN i + 3
            ELSE IF ends # {} THEN CHOOSE p \in ends : \A q \in ends : q <= p
            ELSE 0

RECURSIVE SubFences(_, _, _)
SubFences(s, ls, i) ==
    IF i > Len(s) THEN <<>>
    ELSE LET e == FenceMatchEnd(s, ls, i)
         IN IF e = 0 THEN <<s[i]>> \o SubFences(s, ls, i + 1)
            ELSE SubFences(s, ls, e)

\* re.sub(r"\bw\b", table, s, flags=IGNORECASE)
RECURSIVE SubWord(_, _, _, _, _)
SubWord(s, ls, i, w, table) ==
    IF i > Len(s) THEN <<>>
    ELSE IF WordAt(s, ls, i, w) THEN table \o SubWord(s, ls, i + Len(w), w, table)
    ELSE <<s[i]>> \o SubWord(s, ls, i + 1, w, table)

\* r"INTERVAL\s*'\s*(\d+)\s*week\s*'" at index i: <<start of \1, end of \1, index after the match>>, or <<>>
IntervalMatch(s, ls, i) ==
    IF ~StartsAt(ls, i, W_interval) THEN <<>>
    ELSE LET q1 == SkipSpace(s, i + Len(W_interval))
             d1 == SkipSpace(s, q1 + 1)
             d2 == SkipDigits(s, d1)
             w1 == SkipSpace(s, d2)
             q2 == SkipSpace(s, w1 + Len(W_week))
         IN IF /\ q1 <= Len(s) /\ s[q1] = "'"
               /\ d2 > d1
               /\ StartsAt(ls, w1, W_week)
               /\ q2 <= Len(s) /\ s[q2] = "'"
            THEN <<d1, d2 - 1, q2 + 1>>
            ELSE <<>>

RECURSIVE SubInterval(_, _, _)
SubInterval(s, ls, i) ==
    IF i > Len(s) THEN <<>>
    ELSE LET m == IntervalMatch(s, ls, i)
         IN IF m = <<>> THEN <<s[i]>> \o SubInterval(s, ls, i + 1)
            ELSE W_INTERVAL_ \o SubSeq(s, m[1], m[2]) \o W__WEEK \o SubInterval(s, ls, m[3])

\* r"DATE\s*'\s*now\s*'" at index i: index after the match, or 0
DateNowMatchEnd(s, ls, i) ==
    IF ~StartsAt(ls, i, W_date) THEN 0
    ELSE LET q1 == SkipSpace(s, i + Len(W_date))
             n1 == SkipSpace(s, q1 + 1)
             q2 == SkipSpace(s, n1 + Len(W_now))
         IN IF /\ q1 <= Len(s) /\ s[q1] = "'"
               /\ StartsAt(ls, n1, W_now)
               /\ q2 <= Len(s) /\ s[q2] = "'"
            THEN q2 + 1
            ELSE 0

RECURSIVE SubDateNow(_, _, _)
SubDateNow(s, ls, i) ==
    IF i > Len(s) THEN <<>>
    ELSE LET e == DateNowMatchEnd(s, ls, i)
         IN IF e = 0 THEN <<s[i]>> \o SubDateNow(s, ls, i + 1)
            ELSE W_current_date \o SubDateNow(s, ls, e)

\* the statements of normalize_sql, each applied to the value the one before left in s
Search(s) ==
    CHOOSE r \in {IF m > 0 THEN SubSeq(v, m, Len(v)) ELSE v :
                     <<v, m>> \in {<<u, SelectSearch(u)>> : u \in {s}}} : TRUE
Fences(s) == CHOOSE r \in {strip(SubFences(v, ls, 1)) : <<v, ls>> \in WithLower(s)} : TRUE
Semicolons(s) == strip(rstrip_semicolons(rstrip(s)))
Word(s, w, table) == CHOOSE r \in {SubWord(v, ls, 1, w, table) : <<v, ls>> \in WithLower(s)} : TRUE
Interval(s) == CHOOSE r \in {SubInterval(v, ls, 1) : <<v, ls>> \in WithLower(s)} : TRUE
DateNow(s) == CHOOSE r \in {SubDateNow(v, ls, 1) : <<v, ls>> \in WithLower(s)} : TRUE

normalize_sql(raw, table) ==
    DateNow(Interval(Word(Word(Semicolons(Fences(Search(strip(raw)))),
                               W_your_table, table),
                          W_my_table, table)))

(***************************************************************************)
(* Syntax trees (sqlglot expressions) and their texts                      *)
(***************************************************************************)
W_SELECT == <<"S","E","L","E","C","T">>
W_FROM == <<"F","R","O","M">>
W_JOIN == <<"J","O","I","N">>
W_WHERE == <<"W","H","E","R","E">>
W_AND == <<"A","N","D">>
W_OR == <<"O","R">>
W_NOT == <<"N","O","T">>
W_BETWEEN == <<"B","E","T","W","E","E","N">>
W_IN == <<"I","N">>
W_IS == <<"I","S">>
W_NULL == <<"N","U","L","L">>
W_comma == <<",">>
W_DROP == <<"D","R","O","P">>
W_TABLE == <<"T","A","B","L","E">>
W_star == <<"*">>
W_lparen == <<"(">>
W_rparen == <<")">>
W_count_star == <<"C","O","U","N","T","(","*",")">>
W_data == <<"d","a","t","a">>
W_DATA == <<"D","A","T","A">>
W_t2 == <<"t","2">>
W_col_date == <<"d","a","t","e">>
W_col_Date == <<"D","a","t","e">>
W_col_ts == <<"t","s">>
W_col_TS == <<"T","S">>
W_col_qty == <<"q","t","y">>
W_col_created == <<"c","r","e","a","t","e","d">>
W_1 == <<"1">>
W_2 == <<"2">>

Column(name) == [node |-> "Column", name |-> name]
Literal(v) == [node |-> "Literal", name |-> v]
Table(name) == [node |-> "Table", name |-> name]
Star == [node |-> "Star"]
NoWhere == [node |-> "None"]
\* exp.GT, exp.GTE, exp.LT, exp.LTE, exp.EQ, exp.NEQ, exp.And, exp.Or
Binary(kind, l, r) == [node |-> kind, this |-> l, expression |-> r]
Not(x) == [node |-> "Not", this |-> x]
Paren(x) == [node |-> "Paren", this |-> x]
Between(x, lo, hi) == [node |-> "Between", this |-> x, low |-> lo, high |-> hi]
Null == [node |-> "Null"]
\* exp.Is: x IS NULL
Is(x) == [node |-> "Is", this |-> x, expression |-> Null]
\* exp.In: x IN (values), or x IN (query) with exp.Subquery around the SELECT
NoQuery == [node |-> "None"]
Subquery(q) == [node |-> "Subquery", this |-> q]
In(x, values, query) == [node |-> "In", this |-> x, expressions |-> values, query |-> query]
\* exp.Select: expressions, from and joins (tables), where
Select(proj, tables, where) ==
    [node |-> "Select", expressions |-> proj, tables |-> tables, where |-> where]
Drop(t) == [node |-> "Drop", this |-> t]
ParseError == [node |-> "ParseError"]

OperatorSymbol(kind) ==
    CASE kind = "GT" -> <<">">> [] kind = "GTE" -> <<">", "=">>
      [] kind = "LT" -> <<"<">> [] kind = "LTE" -> <<"<", "=">>
      [] kind = "EQ" -> <<"=">> [] kind = "NEQ" -> <<"<", ">">>
      [] kind = "And" -> W_AND [] kind = "Or" -> W_OR
      [] kind = "Is" -> W_IS

ComparisonKinds == {"GT", "GTE", "LT", "LTE", "EQ", "NEQ"}
ConnectorKinds == {"And", "Or"}

\* a token of a text: a keyword (matched case-insensitively) or an identifier/literal/symbol
KW(w) == [kw |-> TRUE, w |-> w]
ID(w) == [kw |-> FALSE, w |-> w]

\* the tokens of Expression.sql(dialect="duckdb") for a node
RECURSIVE Tokens(_)
RECURSIVE TokensOfList(_)
Tokens(e) ==
    CASE e.node \in {"Column", "Literal", "Table"} -> <<ID(e.name)>>
      [] e.node = "Star" -> <<ID(W_star)>>
      [] e.node \in ComparisonKinds ->
            Tokens(e.this) \o <<ID(OperatorSymbol(e.node))>> \o Tokens(e.expression)
      [] e.node \in ConnectorKinds ->
            Tokens(e.this) \o <<KW(OperatorSymbol(e.node))>> \o Tokens(e.expression)
      [] e.node = "Not" -> <<KW(W_NOT)>> \o Tokens(e.this)
      [] e.node = "Null" -> <<KW(W_NULL)>>
      [] e.node = "Is" ->
            Tokens(e.this) \o <<KW(OperatorSymbol(e.node))>> \o Tokens(e.expression)
      [] e.node = "Subquery" -> <<ID(W_lparen)>> \o Tokens(e.this) \o <<ID(W_rparen)>>
      [] e.node = "In" ->
            Tokens(e.this) \o <<KW(W_IN)>>
            \o (IF e.query # NoQuery THEN Tokens(e.query)
                ELSE <<ID(W_lparen)>> \o TokensOfList(e.expressions) \o <<ID(W_rparen)>>)
      [] e.node = "Paren" -> <<ID(W_lparen)>> \o Tokens(e.this) \o <<ID(W_rparen)>>
      [] e.node = "Between" ->
            Tokens(e.this) \o <<KW(W_BETWEEN)>> \o Tokens(e.low) \o <<KW(W_AND)>> \o Tokens(e.high)
      [] e.node = "Select" ->
            <<KW(W_SELECT)>> \o Tokens(e.expressions) \o <<KW(W_FROM)>>
            \o Tokens(e.tables[1])
            \o (IF Len(e.tables) > 1 THEN <<KW(W_JOIN)>> \o Tokens(e.tables[2]) ELSE <<>>)
            \o (IF e.where = NoWhere THEN <<>> ELSE <<KW(W_WHERE)>> \o Tokens(e.where))
      [] e.node = "Drop" -> <<KW(W_DROP), KW(W_TABLE)>> \o Tokens(e.this)

\* the tokens of a comma-separated list of nodes
TokensOfList(es) ==
    IF es = <<>> THEN <<>>
    ELSE IF Len(es) = 1 THEN Tokens(es[1])
    ELSE Tokens(es[1]) \o <<ID(W_comma)>> \o TokensOfList(Tail(es))

RECURSIVE JoinTokens(_)
JoinTokens(toks) ==
    CHOOSE r \in {IF ts = <<>> THEN <<>>
                  ELSE IF Len(ts) = 1 THEN ts[1].w
                  ELSE ts[1].w \o <<" ">> \o JoinTokens(Tail(ts)) : ts \in {toks}} : TRUE

\* Expression.sql(dialect="duckdb"): keywords in upper case, one space between tokens
sql_of(e) == JoinTokens(Tokens(e))

\* the whitespace-separated words of a text
RECURSIVE Words(_)
WordEnd(s, i) ==
    CHOOSE k \in i..(Len(s) + 1) :
        /\ k = Len(s) + 1 \/ IsSpace(s[k])
        /\ \A m \in i..(k - 1) : ~IsSpace(s[m])
Words(s) ==
    CHOOSE r \in {IF i > Len(v) THEN <<>>
                  ELSE <<SubSeq(v, i, j - 1)>> \o Words(SubSeq(v, j, Len(v))) :
                     <<v, i, j>> \in {<<u, k, WordEnd(u, k)>> :
                                        <<u, k>> \in {<<t, SkipSpace(t, 1)>> : t \in {s}}}} : TRUE

\* the text of the first statement of a text
FirstStatement(s) ==
    CHOOSE r \in {IF Contains(v, <<";">>)
                  THEN SubSeq(v, 1, (CHOOSE i \in 1..Len(v) :
                                        v[i] = ";" /\ \A j \in 1..(i - 1) : v[j] # ";") - 1)
                  ELSE v : v \in {s}} : TRUE

\* a text reads as the tree e
Reads(ws, e) ==
    \E toks \in {Tokens(e)} :
       /\ Len(ws) = Len(toks)
       /\ \A i \in 1..Len(ws) :
            IF toks[i].kw THEN lower(ws[i]) = lower(toks[i].w) ELSE ws[i] = toks[i].w

Where_date == Binary("GTE", Column(W_col_date), Literal(W_1))
Where_Date_ts == Binary("And", Binary("GTE", Column(W_col_Date), Literal(W_1)),
                               Binary("LT", Column(W_col_ts), Literal(W_2)))
Where_qty == Binary("EQ", Column(W_col_qty), Literal(W_1))
Where_date_qty == Binary("And", Where_date, Where_qty)

\* the statements the parser model knows; every other text is a parse error
Statements ==
    { Select(Star, <<Table(W_data)>>, NoWhere),
      Select(Star, <<Table(W_data)>>, Where_date),
      Select(Star, <<Table(W_data)>>, Where_Date_ts),
      Select(Star, <<Table(W_data)>>, Where_date_qty),
      Select(Star, <<Table(W_DATA)>>, Where_qty),
      Select(Star, <<Table(W_t2)>>, NoWhere),
      Select(Star, <<Table(W_data), Table(W_t2)>>, NoWhere),
      Select(Column(W_col_created), <<Table(W_data)>>, NoWhere),
      Drop(Table(W_data)) }

\* sqlglot.parse_one(sql, read="duckdb"): the tree of the FIRST statement of the text
parse_one(s) ==
    CHOOSE r \in {IF read # {} THEN CHOOSE e \in read : TRUE ELSE ParseError :
                     read \in {{e \in Statements : Reads(ws, e)} :
                                 ws \in {Words(FirstStatement(s))}}} : TRUE

(***************************************************************************)
(* validate_with_sqlglot and _extract_date_predicates                      *)
(***************************************************************************)
\* Expression.args.values(), the child expressions in order
Children(e) ==
    CASE e.node \in ComparisonKinds \cup ConnectorKinds -> <<e.this, e.expression>>
      [] e.node \in {"Not", "Paren", "Drop", "Subquery"} -> <<e.this>>
      [] e.node = "Is" -> <<e.this, e.expression>>
      [] e.node = "In" ->
            <<e.this>> \o e.expressions \o (IF e.query = NoQuery THEN <<>> ELSE <<e.query>>)
      [] e.node = "Between" -> <<e.this, e.low, e.high>>
      [] e.node = "Select" ->
            <<e.expressions>> \o e.tables \o (IF e.where = NoWhere THEN <<>> ELSE <<e.where>>)
      [] OTHER -> <<>>

\* Expression.find_all(kind): the nodes of that kind in the tree
RECURSIVE find_all(_, _)
find_all(e, kind) ==
    (IF e.node = kind THEN {e} ELSE {})
    \cup UNION {find_all(Children(e)[i], kind) : i \in 1..Len(Children(e))}

TableMismatchError == "Query must reference table"
NotSelectError == "Only SELECT statements are allowed"
CommandError == "Command statements are not allowed"
SqlglotParseError == "sqlglot parse error"
SafetyError == "Generated SQL failed safety checks"
EngineError == "engine error"
UnknownError == "unknown error"

\* a faulty variant: no table check
validate_any_table(sql_text, table) ==
    CHOOSE r \in {
       IF parsed = ParseError THEN [ok |-> FALSE, error |-> SqlglotParseError]
       ELSE IF parsed.node # "Select" THEN [ok |-> FALSE, error |-> NotSelectError]
       ELSE IF find_all(parsed, "Command") # {} THEN [ok |-> FALSE, error |-> CommandError]
       ELSE [ok |-> TRUE, sql |-> sql_of(parsed)]
       : parsed \in {parse_one(sql_text)}} : TRUE

\* returns the normalized text, or the SqlValidationError it raises
validate_with_sqlglot(sql_text, table) ==
    CHOOSE r \in {
       IF parsed = ParseError THEN [ok |-> FALSE, error |-> SqlglotParseError]
       ELSE IF parsed.node # "Select" THEN [ok |-> FALSE, error |-> NotSelectError]
       ELSE IF find_all(parsed, "Command") # {} THEN [ok |-> FALSE, error |-> CommandError]
       ELSE IF lower(table) \notin {lower(t.name) : t \in find_all(parsed, "Table")}
            THEN [ok |-> FALSE, error |-> TableMismatchError]
       ELSE [ok |-> TRUE, sql |-> sql_of(parsed)]
       : parsed \in {parse_one(sql_text)}} : TRUE

\* the date columns a node refers to
Matched(e, date_cols) == {lower(c.name) : c \in find_all(e, "Column")} \cap date_cols

\* collect(expr): the collected predicates, in the order of the walk
RECURSIVE collect(_, _)
RECURSIVE collect_children(_, _)
collect(e, date_cols) ==
    IF e.node \in {"GT", "GTE", "LT", "LTE", "EQ", "Between"} /\ Matched(e, date_cols) # {}
    THEN <<e>>
    ELSE collect_children(Children(e), date_cols)
collect_children(es, date_cols) ==
    IF es = <<>> THEN <<>>
    ELSE collect(Head(es), date_cols) \o collect_children(Tail(es), date_cols)

\* exp.and_(combined, p)
and_(l, r) ==
    Binary("And", IF l.node \in ConnectorKinds THEN Paren(l) ELSE l,
                  IF r.node \in ConnectorKinds THEN Paren(r) ELSE r)

RECURSIVE Combined(_)
Combined(preds) ==
    IF Len(preds) = 1 THEN preds[1]
    ELSE and_(Combined(SubSeq(preds, 1, Len(preds) - 1)), preds[Len(preds)])

\* (None, set())
NoDatePredicate == [sql |-> <<>>, cols |-> {}]

\* graph_runner.py 61-88: the predicates collected under the where clause,
\* combined, with the date columns they refer to
date_predicates(where, date_cols) ==
    CHOOSE found \in {
       IF date_preds = <<>> THEN NoDatePredicate
       ELSE [sql |-> sql_of(Combined(date_preds)),
             cols |-> UNION {Matched(date_preds[i], date_cols) : i \in 1..Len(date_preds)}]
       : date_preds \in {collect(where, date_cols)}} : TRUE

\* graph_runner.py 57-88: _extract_date_predicates from the parsed statement on
extract_from_parsed(parsed_expr, date_cols) ==
    IF parsed_expr = ParseError THEN NoDatePredicate
    ELSE IF parsed_expr.node # "Select" THEN NoDatePredicate
    ELSE IF parsed_expr.where = NoWhere THEN NoDatePredicate
    ELSE date_predicates(parsed_expr.where, date_cols)

\* returns (predicate_sql, referenced_cols)
extract_date_predicates(sql_text, date_cols) ==
    CHOOSE r \in {extract_from_parsed(parsed_expr, date_cols)
                  : parsed_expr \in {parse_one(sql_text)}} : TRUE

(***************************************************************************)
(* The run: inputs                                                         *)
(***************************************************************************)
\* largest repair budget of a run
MaxRepairs == 2

\* --table, default "data"
table_name == W_data

\* what the generator may answer
\* 'select * from data'
Raw_plain ==
    <<"s","e","l","e","c","t"," ","*"," ","f","r","o","m"," ","d","a","t","a">>
\* 'Query: select * from data where date >= 1;'
Raw_prose_date ==
    <<"Q","u","e","r","y",":"," ","s","e","l","e","c","t"," ","*"," ","f","r","o","m"," ","d","a","t","a"," ","w","h","e","r","e"," ","d","a","t","e"," ",">","="," ","1",";">>
\* '```sql\nselect * from my_table where Date >= 1 and ts < 2\n```'
Raw_fenced_two_dates ==
    <<"bq","bq","bq","s","q","l","\n","s","e","l","e","c","t"," ","*"," ","f","r","o","m"," ","m","y","_","t","a","b","l","e"," ","w","h","e","r","e"," ","D","a","t","e"," ",">","="," ","1"," ","a","n","d"," ","t","s"," ","<"," ","2","\n","bq","bq","bq">>
\* 'select * from data where date >= 1 and qty = 1'
Raw_date_and_qty ==
    <<"s","e","l","e","c","t"," ","*"," ","f","r","o","m"," ","d","a","t","a"," ","w","h","e","r","e"," ","d","a","t","e"," ",">","="," ","1"," ","a","n","d"," ","q","t","y"," ","="," ","1">>
\* 'SELECT * FROM DATA WHERE qty = 1'
Raw_upper_table ==
    <<"S","E","L","E","C","T"," ","*"," ","F","R","O","M"," ","D","A","T","A"," ","W","H","E","R","E"," ","q","t","y"," ","="," ","1">>
\* 'select * from t2'
Raw_other_table ==
    <<"s","e","l","e","c","t"," ","*"," ","f","r","o","m"," ","t","2">>
\* 'select * from data join t2'
Raw_join ==
    <<"s","e","l","e","c","t"," ","*"," ","f","r","o","m"," ","d","a","t","a"," ","j","o","i","n"," ","t","2">>
\* 'select created from data'
Raw_keyword_column ==
    <<"s","e","l","e","c","t"," ","c","r","e","a","t","e","d"," ","f","r","o","m"," ","d","a","t","a">>
\* 'drop table data'
Raw_drop ==
    <<"d","r","o","p"," ","t","a","b","l","e"," ","d","a","t","a">>
\* 'select * from data; drop table data'
Raw_select_then_drop ==
    <<"s","e","l","e","c","t"," ","*"," ","f","r","o","m"," ","d","a","t","a",";"," ","d","r","o","p"," ","t","a","b","l","e"," ","d","a","t","a">>
\* 'select * from ('
Raw_unparsable ==
    <<"s","e","l","e","c","t"," ","*"," ","f","r","o","m"," ","(">>

RawOutputs == {Raw_plain, Raw_prose_date, Raw_fenced_two_dates, Raw_date_and_qty, Raw_upper_table, Raw_other_table, Raw_join, Raw_keyword_column, Raw_drop, Raw_select_then_drop, Raw_unparsable}

\* what the generator may answer when asked for an explanation, after .strip()
LlmExplanation == "llm explanation"

\* get_date_columns / get_date_bounds of the table: the date columns as the schema
\* spells them, and the bounds keyed by lower-cased column
KnownBounds == <<"2021-01-01", "2021-12-31">>
UnknownBounds == <<None, None>>
DateScenarios ==
    { [cols |-> <<W_col_date, W_col_TS>>,
       bounds |-> (W_col_date :> KnownBounds) @@ (W_col_ts :> <<"2020-06-01", "2022-06-01">>)],
      [cols |-> <<W_col_date, W_col_TS>>,
       bounds |-> (W_col_date :> KnownBounds) @@ (W_col_ts :> UnknownBounds)],
      [cols |-> <<W_col_date, W_col_TS>>,
       bounds |-> (W_col_date :> UnknownBounds) @@ (W_col_ts :> UnknownBounds)],
      [cols |-> <<W_col_date, W_col_TS>>, bounds |-> <<>>],
      [cols |-> <<>>, bounds |-> <<>>] }

\* "".join of the characters of a text
RECURSIVE Str(_)
Str(s) == IF s = <<>> THEN "" ELSE s[1] \o Str(Tail(s))

\* the orders in which a Python set may be iterated
Orders(S) == {o \in [1..Cardinality(S) -> S] : \A i, j \in 1..Cardinality(S) : o[i] = o[j] => i = j}

\* dict.get(col); a missing entry (None) is written as the empty tuple, which is falsy too
Get(d, col) == IF col \in DOMAIN d THEN d[col] ELSE <<>>

\* min_max and all(v is not None for v in min_max)
BoundsKnown(min_max) == min_max # <<>> /\ \A i \in 1..Len(min_max) : min_max[i] # None

\* bounds_parts, for the columns in the order of iteration
RECURSIVE bounds_parts(_, _)
bounds_parts(order, bounds) ==
    IF order = <<>> THEN <<>>
    ELSE LET col == Head(order)
             min_max == Get(bounds, col)
         IN (IF BoundsKnown(min_max)
             THEN <<Str(col) \o ": " \o min_max[1] \o " to " \o min_max[2]>>
             ELSE <<>>)
            \o bounds_parts(Tail(order), bounds)

\* "; ".join(parts)
RECURSIVE JoinParts(_)
JoinParts(parts) ==
    IF Len(parts) = 1 THEN parts[1] ELSE parts[1] \o "; " \o JoinParts(Tail(parts))

DateRangeHead == "Date range is not provided in the dataset."
CoverageHead == " Available date coverage -> "
NoRowsExplanation == "Query returned no rows."

\* a faulty variant: a part for every column with an entry, its bounds known or not
short_circuit_message_any_bounds(order, bounds) ==
    LET listed == SelectSeq(order, LAMBDA c : c \in DOMAIN bounds)
        Part(c) == Str(c) \o ": " \o bounds[c][1] \o " to " \o bounds[c][2]
        parts == [i \in 1..Len(listed) |-> Part(listed[i])]
    IN IF parts # <<>> THEN DateRangeHead \o CoverageHead \o JoinParts(parts)
       ELSE DateRangeHead

\* graph_runner.py 131-140: the message of the short-circuit
short_circuit_message(order, bounds) ==
    LET parts == bounds_parts(order, bounds)
    IN IF parts # <<>> THEN DateRangeHead \o CoverageHead \o JoinParts(parts)
       ELSE DateRangeHead

\* graph_runner.py 152-158: the message of the fallback, None when no bounds are known
fallback_message(order, bounds) ==
    LET parts == bounds_parts(order, bounds)
    IN IF parts # <<>> THEN DateRangeHead \o CoverageHead \o JoinParts(parts)
       ELSE None

\* f"SELECT COUNT(*) FROM {table} WHERE {date_filter_sql}"
probe_query(table, date_filter_sql) ==
    W_SELECT \o <<" ">> \o W_count_star \o <<" ">> \o W_FROM \o <<" ">> \o table
    \o <<" ">> \o W_WHERE \o <<" ">> \o date_filter_sql

\* set(c.lower() for c in state.get("date_columns", []))
LowerSet(cols) == {lower(cols[i]) : i \in 1..Len(cols)}

(***************************************************************************)
(* The graph pipeline (build_graph)                                        *)
(***************************************************************************)
\* a faulty variant: one repair too many
needs_repair_off_by_one(err, attempts, budget) == err # None /\ attempts <= budget

\* a faulty variant: repairs while budget remains, error or not
needs_repair_ignoring_error(err, attempts, budget) == attempts < budget

needs_repair(err, attempts, budget) == err # None /\ attempts < budget

NoTextRun == text = <<>> /\ embedded = None /\ verdict = <<>>

Init ==
    /\ pipeline \in {"graph", "runner"}
    /\ pc = "generate"
    /\ max_repairs \in 0..MaxRepairs
    /\ \E sc \in DateScenarios :
          /\ date_columns = (IF pipeline = "graph" THEN sc.cols ELSE <<>>)
          /\ date_bounds = (IF pipeline = "graph" THEN sc.bounds ELSE <<>>)
    /\ sql = <<>>
    /\ safe = FALSE
    /\ df = None
    /\ error = None
    /\ repair_attempts = 0
    /\ explanation = None
    /\ date_range_message = None
    /\ candidate = <<>>
    /\ engine_calls = <<>>
    /\ llm_calls = 0
    /\ ve_count = 0
    /\ repair_context = <<>>
    /\ step = "init"
    /\ NoTextRun

generate_node ==
    /\ pipeline = "graph" /\ pc = "generate"
    /\ \E raw_sql \in RawOutputs : sql' = normalize_sql(raw_sql, table_name)
    /\ repair_attempts' = 0
    /\ llm_calls' = llm_calls + 1
    /\ pc' = "validate_and_execute"
    /\ step' = "generate"
    /\ UNCHANGED <<pipeline, max_repairs, date_columns, date_bounds, safe, df, error,
                   explanation, date_range_message, candidate, engine_calls, ve_count>>
    /\ repair_context' = <<>>

generate == generate_node /\ UNCHANGED text_vars

Call(kind, q, result) == [kind |-> kind, sql |-> q, result |-> result]

\* a faulty variant: a failure of the probe is reported as the error of the step
probe_failure_reported(probe) == IF probe = "fail" THEN EngineError ELSE None

\* graph_runner.py 142-144, "except Exception: pass": the error a probe leaves behind
probe_failure(probe) == None

\* parse_raises: the call exp.parse_one of _extract_date_predicates raises (lines
\* 52-55; sqlglot.parse_one is the documented entry point, and whether the
\* expressions module offers the name too depends on the installed sqlglot), and
\* the step goes on with no date predicate.
validate_and_execute_node ==
    /\ pipeline = "graph" /\ pc = "validate_and_execute"
    /\ \E validated \in {validate_with_sqlglot(sql, table_name)} :
       \E sql1 \in {IF validated.ok THEN validated.sql ELSE sql} :
       \E safe1 \in {validated.ok /\ is_safe(sql1)} :
       \E error1 \in {IF ~validated.ok THEN validated.error
                      ELSE IF ~safe1 THEN SafetyError ELSE None} :
       \E parse_raises \in BOOLEAN :
       \E dates \in {IF error1 = None /\ ~parse_raises
                     THEN extract_date_predicates(sql1, LowerSet(date_columns))
                     ELSE NoDatePredicate} :
       \E val \in {[sql |-> sql1, safe |-> safe1, error |-> error1,
                    date_filter_sql |-> dates.sql, date_cols_in_query |-> dates.cols]} :
       LET runs == val.error = None /\ val.safe
           probed == runs /\ val.date_filter_sql # <<>>
           probe_sql == probe_query(table_name, val.date_filter_sql)
       IN \E probe \in (IF probed THEN {"fail", "zero", "some"} ELSE {"none"}),
             order \in Orders(val.date_cols_in_query) :
            IF probe = "zero"
            THEN /\ sql' = val.sql
                 /\ safe' = val.safe
                 /\ df' = "empty"
                 /\ error' = None
                 /\ date_range_message' = short_circuit_message(order, date_bounds)
                 /\ engine_calls' = <<Call("probe", probe_sql, probe)>>
                 /\ pc' = IF needs_repair(None, repair_attempts, max_repairs)
                          THEN "repair" ELSE "explain"
            ELSE \E full \in (IF runs THEN {"fail", "empty", "rows"} ELSE {"none"}) :
                 LET df1 == IF full \in {"empty", "rows"} THEN full ELSE None
                     error2 == IF full = "fail" THEN EngineError
                               ELSE IF probe_failure(probe) # None THEN probe_failure(probe)
                               ELSE val.error
                     fallback == /\ error2 = None /\ val.date_filter_sql # <<>>
                                 /\ df1 = "empty"
                 IN /\ sql' = val.sql
                    /\ safe' = val.safe
                    /\ df' = df1
                    /\ error' = error2
                    /\ date_range_message' =
                          (IF fallback THEN fallback_message(order, date_bounds) ELSE None)
                    /\ engine_calls' =
                          (IF probed THEN <<Call("probe", probe_sql, probe)>> ELSE <<>>)
                          \o (IF runs THEN <<Call("full", val.sql, full)>> ELSE <<>>)
                    /\ pc' = IF needs_repair(error2, repair_attempts, max_repairs)
                             THEN "repair" ELSE "explain"
    /\ candidate' = sql
    /\ ve_count' = ve_count + 1
    /\ step' = "validate_and_execute"
    /\ UNCHANGED <<pipeline, max_repairs, date_columns, date_bounds, repair_attempts,
                   explanation, llm_calls>>
    /\ repair_context' = <<>>

validate_and_execute == validate_and_execute_node /\ UNCHANGED text_vars

\* a faulty variant: the generator's answer as it came
repair_sql_unnormalized(raw) == raw

\* repair_sql: the generator's answer through normalize_sql
repair_sql(raw) == normalize_sql(raw, table_name)

\* graph_runner.py 179, `state.get("error") or "unknown error"`
error_or_unknown(err) == IF err = None THEN UnknownError ELSE err

\* the keyword arguments previous_sql and error of a repair_sql call
RepairContext(previous_sql, err) == [previous_sql |-> previous_sql, error |-> err]

\* a faulty variant: the generator is told of no particular error
repair_arguments_without_error(q, err) == RepairContext(q, UnknownError)

\* graph_runner.py 173-180: what the repair node hands to repair_sql
repair_arguments(q, err) == RepairContext(q, error_or_unknown(err))

repair_node ==
    /\ pipeline = "graph" /\ pc = "repair"
    /\ \E raw \in RawOutputs : sql' = repair_sql(raw)
    /\ repair_context' = repair_arguments(sql, error)
    /\ error' = None
    /\ df' = None
    /\ safe' = FALSE
    /\ repair_attempts' = repair_attempts + 1
    /\ llm_calls' = llm_calls + 1
    /\ pc' = "validate_and_execute"
    /\ step' = "repair"
    /\ UNCHANGED <<pipeline, max_repairs, date_columns, date_bounds, explanation,
                   date_range_message, candidate, engine_calls, ve_count>>

repair == repair_node /\ UNCHANGED text_vars

\* a faulty variant: the rows decide the explanation, the message is not looked at
explain_ignoring_message ==
    /\ pipeline = "graph" /\ pc = "explain"
    /\ IF df = None
       THEN explanation' = explanation /\ llm_calls' = llm_calls
       ELSE IF df = "empty"
       THEN explanation' = NoRowsExplanation /\ llm_calls' = llm_calls
       ELSE explanation' = LlmExplanation /\ llm_calls' = llm_calls + 1
    /\ pc' = "done"
    /\ step' = "explain"
    /\ UNCHANGED <<pipeline, max_repairs, date_columns, date_bounds, sql, safe, df, error,
                   repair_attempts, date_range_message, candidate, engine_calls, ve_count>>
    /\ repair_context' = <<>>
    /\ UNCHANGED text_vars

\* a faulty variant: empty rows are explained by the generator like any rows
explain_empty_rows_by_llm ==
    /\ pipeline = "graph" /\ pc = "explain"
    /\ IF date_range_message # None
       THEN explanation' = date_range_message /\ llm_calls' = llm_calls
       ELSE IF df = None
       THEN explanation' = explanation /\ llm_calls' = llm_calls
       ELSE explanation' = LlmExplanation /\ llm_calls' = llm_calls + 1
    /\ pc' = "done"
    /\ step' = "explain"
    /\ UNCHANGED <<pipeline, max_repairs, date_columns, date_bounds, sql, safe, df, error,
                   repair_attempts, date_range_message, candidate, engine_calls, ve_count>>
    /\ repair_context' = <<>>
    /\ UNCHANGED text_vars

explain_node ==
    /\ pipeline = "graph" /\ pc = "explain"
    /\ IF date_range_message # None
       THEN explanation' = date_range_message /\ llm_calls' = llm_calls
       ELSE IF df = None
       THEN explanation' = explanation /\ llm_calls' = llm_calls
       ELSE IF df = "empty"
       THEN explanation' = NoRowsExplanation /\ llm_calls' = llm_calls
       ELSE explanation' = LlmExplanation /\ llm_calls' = llm_calls + 1
    /\ pc' = "done"
    /\ step' = "explain"
    /\ UNCHANGED <<pipeline, max_repairs, date_columns, date_bounds, sql, safe, df, error,
                   repair_attempts, date_range_message, candidate, engine_calls, ve_count>>
    /\ repair_context' = <<>>

explain == explain_node /\ UNCHANGED text_vars

(***************************************************************************)
(* The loop pipeline (run_pipeline)                                        *)
(***************************************************************************)
\* runner.py 44-64: the first generation and the locals
run_generate ==
    /\ pipeline = "runner" /\ pc = "generate"
    /\ \E raw_sql \in RawOutputs : sql' = normalize_sql(raw_sql, table_name)
    /\ repair_attempts' = 0
    /\ df' = None
    /\ error' = None
    /\ llm_calls' = llm_calls + 1
    /\ pc' = "execute"
    /\ step' = "generate"
    /\ UNCHANGED <<pipeline, max_repairs, date_columns, date_bounds, safe, explanation,
                   date_range_message, candidate, engine_calls, ve_count>>
    /\ repair_context' = <<>>
    /\ UNCHANGED text_vars

\* runner.py 67-77, 88: the safety check and the execution of one iteration, and where it goes
run_execute ==
    /\ pipeline = "runner" /\ pc = "execute"
    /\ \E safe1 \in {is_safe(sql)} :
          \E full \in (IF safe1 THEN {"fail", "rows", "empty"} ELSE {"none"}) :
            LET error1 == IF ~safe1 THEN SafetyError
                          ELSE IF full = "fail" THEN EngineError ELSE None
            IN /\ safe' = safe1
               /\ error' = error1
               /\ df' = (IF full \in {"rows", "empty"} THEN full ELSE df)
               /\ engine_calls' = (IF safe1 THEN <<Call("full", sql, full)>> ELSE <<>>)
               /\ pc' = IF error1 # None /\ repair_attempts < max_repairs
                        THEN "repair" ELSE "finish"
    /\ candidate' = sql
    /\ ve_count' = ve_count + 1
    /\ step' = "validate_and_execute"
    /\ UNCHANGED <<pipeline, max_repairs, date_columns, date_bounds, sql, repair_attempts,
                   explanation, date_range_message, llm_calls>>
    /\ repair_context' = <<>>
    /\ UNCHANGED text_vars

\* runner.py 78-87
run_repair ==
    /\ pipeline = "runner" /\ pc = "repair"
    /\ repair_attempts' = repair_attempts + 1
    /\ \E raw \in RawOutputs : sql' = repair_sql(raw)
    /\ repair_context' = RepairContext(sql, error)
    /\ llm_calls' = llm_calls + 1
    /\ pc' = "execute"
    /\ step' = "repair"
    /\ UNCHANGED <<pipeline, max_repairs, date_columns, date_bounds, safe, df, error,
                   explanation, date_range_message, candidate, engine_calls, ve_count>>
    /\ UNCHANGED text_vars

\* runner.py 90-133: the explanation and the result
run_finish ==
    /\ pipeline = "runner" /\ pc = "finish"
    /\ IF df # None
       THEN explanation' = LlmExplanation /\ llm_calls' = llm_calls + 1
       ELSE explanation' = None /\ llm_calls' = llm_calls
    /\ safe' = (error = None /\ safe = TRUE)
    /\ pc' = "done"
    /\ step' = "explain"
    /\ UNCHANGED <<pipeline, max_repairs, date_columns, date_bounds, sql, df, error,
                   repair_attempts, date_range_message, candidate, engine_calls, ve_count>>
    /\ repair_context' = <<>>
    /\ UNCHANGED text_vars

Next ==
    \/ generate
    \/ validate_and_execute
    \/ repair
    \/ explain
    \/ run_generate
    \/ run_execute
    \/ run_repair
    \/ run_finish

Spec == Init /\ [][Next]_vars

\* every generator and engine call returns, so a run that can take a step takes one
FairSpec == Spec /\ WF_vars(Next)

(***************************************************************************)
(* is_safe on its own: texts built around a keyword                        *)
(***************************************************************************)
\* longest run of pieces before the keyword
MaxPad == 2

PadPieces == { W_select \o <<" ">>, <<"x">>, <<";">>, <<"'">> }

RECURSIVE Pads(_)
Pads(n) == IF n = 0 THEN {<<>>} ELSE Pads(n - 1) \cup {p \o q : p \in Pads(n - 1), q \in PadPieces}

Casings == {"lower", "upper", "capital", "alternating"}

Cased(w, casing) ==
    [i \in 1..Len(w) |->
        CASE casing = "lower" -> w[i]
          [] casing = "upper" -> upper_char(w[i])
          [] casing = "capital" -> IF i = 1 THEN upper_char(w[i]) ELSE w[i]
          [] casing = "alternating" -> IF i % 2 = 0 THEN upper_char(w[i]) ELSE w[i]]

NoPipelineRun ==
    /\ pipeline = "none" /\ pc = "none" /\ max_repairs = 0
    /\ date_columns = <<>> /\ date_bounds = <<>> /\ sql = <<>> /\ safe = FALSE
    /\ df = None /\ error = None /\ repair_attempts = 0 /\ explanation = None
    /\ date_range_message = None /\ candidate = <<>> /\ engine_calls = <<>>
    /\ llm_calls = 0 /\ ve_count = 0 /\ repair_context = <<>> /\ step = "init"

SafeInit ==
    /\ NoPipelineRun
    /\ \E pre \in Pads(MaxPad), post \in Pads(1), kw \in banned \cup {<<>>}, casing \in Casings :
          /\ kw = <<>> => casing = "lower"
          /\ embedded = [pre |-> pre, kw |-> kw, casing |-> casing, post |-> post]
          /\ text = pre \o Cased(kw, casing) \o post
    /\ verdict = <<>>

check_is_safe ==
    /\ verdict = <<>>
    /\ verdict' = <<is_safe(text)>>
    /\ UNCHANGED <<text, embedded>>
    /\ UNCHANGED pipeline_vars

SafeNext == check_is_safe

SafeSpec == SafeInit /\ [][SafeNext]_vars

(***************************************************************************)
(* normalize_sql on its own: raw generator outputs built from pieces       *)
(***************************************************************************)
\* longest raw output, in pieces
MaxPieces == 3

\* a prose prefix, a statement, a terminator, white space, a code fence with
\* and without its label, a placeholder table, a quoted week interval, DATE 'now'
P_prose == <<"O","k",":"," ">>
P_select == <<"s","e","l","e","c","t"," ","x">>
P_semicolon == <<";">>
P_space == <<" ">>
P_newline == <<"\n">>
P_fence == W_fence
P_fence_sql == W_fence \o W_sql \o <<"\n">>
P_from_placeholder == <<" ","f","r","o","m"," ">> \o W_your_table
P_interval == <<" ","I","n","t","e","r","v","a","l"," ","'","6"," ","w","e","e","k","'">>
P_date_now == <<" ","D","A","T","E"," ","'","n","o","w","'">>

RawPieces == {P_prose, P_select, P_semicolon, P_space, P_newline, P_fence, P_fence_sql,
              P_from_placeholder, P_interval, P_date_now}

RECURSIVE RawTexts(_)
RawTexts(n) ==
    IF n = 0 THEN {<<>>}
    ELSE RawTexts(n - 1) \cup {p \o q : p \in RawTexts(n - 1), q \in RawPieces}

\* the --table values tried
TableNames == {W_data, W_my_table}

NormInit ==
    /\ NoPipelineRun
    /\ \E raw \in RawTexts(MaxPieces), table \in TableNames :
          /\ text = raw
          /\ embedded = [table |-> table]
    /\ verdict = <<>>

\* normalize_sql(raw, table)
normalize_raw ==
    /\ verdict = <<>>
    /\ verdict' = <<normalize_sql(text, embedded.table)>>
    /\ UNCHANGED <<text, embedded>>
    /\ UNCHANGED pipeline_vars

\* normalize_sql applied to its own result
normalize_again ==
    /\ Len(verdict) = 1
    /\ verdict' = Append(verdict, normalize_sql(verdict[1], embedded.table))
    /\ UNCHANGED <<text, embedded>>
    /\ UNCHANGED pipeline_vars

NormNext ==
    \/ normalize_raw
    \/ normalize_again

NormSpec == NormInit /\ [][NormNext]_vars

(***************************************************************************)
(* _extract_date_predicates on its own: parsed statements with a where     *)
(* clause built from a few predicates                                      *)
(***************************************************************************)
A_date == Where_date
A_Date_lt == Binary("LT", Column(W_col_Date), Literal(W_2))
A_ts == Binary("EQ", Column(W_col_ts), Literal(W_1))
A_qty == Where_qty
A_date_neq == Binary("NEQ", Column(W_col_date), Literal(W_1))
A_date_in == In(Column(W_col_date), <<Literal(W_1), Literal(W_2)>>, NoQuery)
A_date_is_null == Is(Column(W_col_date))
A_date_between == Between(Column(W_col_date), Literal(W_1), Literal(W_2))
A_qty_between == Between(Column(W_col_qty), Literal(W_1), Literal(W_2))
\* a comparison of two comparisons: (date >= 1) = (ts = 1)
A_nested == Binary("EQ", Paren(A_date), Paren(A_ts))
\* qty IN (SELECT qty FROM data WHERE date >= 1)
A_subquery ==
    In(Column(W_col_qty), <<>>,
       Subquery(Select(Column(W_col_qty), <<Table(W_data)>>, Where_date)))

Atoms == {A_date, A_Date_lt, A_ts, A_qty, A_date_neq, A_date_in, A_date_is_null,
          A_date_between, A_qty_between, A_nested, A_subquery}

\* where clauses: none, one predicate, NOT, AND and OR of two, and deeper ones
Wheres ==
    {NoWhere} \cup Atoms
    \cup {Not(a) : a \in Atoms}
    \cup {Binary("And", a, b) : a, b \in Atoms}
    \cup {Binary("Or", a, b) : a, b \in Atoms}
    \cup {Binary("And", Binary("And", A_date, A_ts), a) : a \in Atoms}
    \cup {Not(Paren(Binary("Or", a, A_Date_lt))) : a \in Atoms}

\* set(c.lower() for c in date_columns) for no, one and two date columns
DateColumnSets == {{}, {W_col_date}, {W_col_date, W_col_ts}}

DateInit ==
    /\ NoPipelineRun
    /\ text = <<>>
    /\ \E where \in Wheres, date_cols \in DateColumnSets :
          embedded = [parsed |-> Select(Star, <<Table(W_data)>>, where),
                      date_cols |-> date_cols]
    /\ verdict = <<>>

\* _extract_date_predicates for the text of embedded.parsed: the result, and
\* whether the call exp.parse_one of lines 52-55 raised (see validate_and_execute)
extract ==
    /\ verdict = <<>>
    /\ \E parse_raises \in BOOLEAN :
          verdict' = <<IF parse_raises THEN NoDatePredicate
                       ELSE extract_from_parsed(embedded.parsed, embedded.date_cols),
                      parse_raises>>
    /\ UNCHANGED <<text, embedded>>
    /\ UNCHANGED pipeline_vars

DateNext == extract

DateSpec == DateInit /\ [][DateNext]_vars

(***************************************************************************)
(* The probe and the full query against a table: what con.execute returns  *)
(* for the statements above, with SQL's three truth values                 *)
(***************************************************************************)
\* most rows in the table
MaxRows == 1

\* a value of a cell: <<n>> for a number, <<>> for NULL
NullValue == <<>>
Number(n) == <<n>>
CellValues == {NullValue, Number(0), Number(1)}

\* a row of the table data: date and ts are the date columns, qty is not
Row(d, t, q) == (W_col_date :> d) @@ (W_col_ts :> t) @@ (W_col_qty :> q)
Rows == {Row(d, t, q) : d \in CellValues, t \in {Number(0), Number(1)},
                        q \in {Number(0), Number(1)}}
Tables == {rows \in SUBSET Rows : Cardinality(rows) <= MaxRows}

LiteralValue(w) == IF w = W_1 THEN Number(1) ELSE IF w = W_2 THEN Number(2) ELSE Number(0)

ValueOfTruth(t) == IF t = "U" THEN NullValue ELSE IF t = "T" THEN Number(1) ELSE Number(0)
TruthOf(b) == IF b THEN "T" ELSE "F"

\* a comparison of two values; NULL on either side gives unknown
Compare(kind, a, b) ==
    IF a = NullValue \/ b = NullValue THEN "U"
    ELSE TruthOf(CASE kind = "GT" -> a[1] > b[1]
                   [] kind = "GTE" -> a[1] >= b[1]
                   [] kind = "LT" -> a[1] < b[1]
                   [] kind = "LTE" -> a[1] <= b[1]
                   [] kind = "EQ" -> a[1] = b[1]
                   [] kind = "NEQ" -> a[1] # b[1])

And3(a, b) == IF a = "F" \/ b = "F" THEN "F" ELSE IF a = "T" /\ b = "T" THEN "T" ELSE "U"
Or3(a, b) == IF a = "T" \/ b = "T" THEN "T" ELSE IF a = "F" /\ b = "F" THEN "F" ELSE "U"
Not3(a) == IF a = "T" THEN "F" ELSE IF a = "F" THEN "T" ELSE "U"
\* x IN (values)
In3(v, values) ==
    IF values = {} THEN "F"
    ELSE IF v = NullValue THEN "U"
    ELSE IF v \in values THEN "T"
    ELSE IF NullValue \in values THEN "U" ELSE "F"

RECURSIVE Value(_, _, _)
RECURSIVE Truth(_, _, _)
RECURSIVE Selected(_, _)

\* the value of an expression in a row (identifiers are case-insensitive)
Value(e, row, rows) ==
    CASE e.node = "Column" -> row[lower(e.name)]
      [] e.node = "Literal" -> LiteralValue(e.name)
      [] e.node = "Null" -> NullValue
      [] e.node = "Paren" -> Value(e.this, row, rows)
      [] OTHER -> ValueOfTruth(Truth(e, row, rows))

\* the truth value of a predicate in a row
Truth(e, row, rows) ==
    CASE e.node \in ComparisonKinds ->
            Compare(e.node, Value(e.this, row, rows), Value(e.expression, row, rows))
      [] e.node = "Between" ->
            And3(Compare("GTE", Value(e.this, row, rows), Value(e.low, row, rows)),
                 Compare("LTE", Value(e.this, row, rows), Value(e.high, row, rows)))
      [] e.node = "And" -> And3(Truth(e.this, row, rows), Truth(e.expression, row, rows))
      [] e.node = "Or" -> Or3(Truth(e.this, row, rows), Truth(e.expression, row, rows))
      [] e.node = "Not" -> Not3(Truth(e.this, row, rows))
      [] e.node = "Paren" -> Truth(e.this, row, rows)
      [] e.node = "Is" -> TruthOf(Value(e.this, row, rows) = NullValue)
      [] e.node = "In" ->
            In3(Value(e.this, row, rows),
                IF e.query = NoQuery
                THEN {Value(e.expressions[i], row, rows) : i \in 1..Len(e.expressions)}
                ELSE {Value(e.query.this.expressions, r, rows) :
                         r \in Selected(e.query.this, rows)})
      [] OTHER -> "U"

\* the rows a SELECT over the table returns: those whose where clause is true
Selected(q, rows) ==
    {r \in rows : q.where = NoWhere \/ Truth(q.where, r, rows) = "T"}

CoverInit ==
    /\ NoPipelineRun
    /\ text = <<>>
    /\ \E where \in Wheres, date_cols \in DateColumnSets, rows \in Tables :
          embedded = [parsed |-> Select(Star, <<Table(W_data)>>, where),
                      date_cols |-> date_cols, rows |-> rows]
    /\ verdict = <<>>

\* graph_runner.py 121-148 for a validated, safe statement and a table: the
\* extraction, the probe SELECT COUNT(*) FROM data WHERE <date filter> (read back
\* as the tree it was rendered from), the short circuit on a count of 0, else
\* the full query. full is what the full query returns on the table, run or not.
probe_and_execute ==
    /\ verdict = <<>>
    /\ \E parse_raises \in BOOLEAN :
       \E date_preds \in {IF parse_raises THEN <<>>
                          ELSE collect(embedded.parsed.where, embedded.date_cols)} :
       \E date_only_count \in
             {IF date_preds = <<>> THEN 0
              ELSE Cardinality(Selected(Select(Star, <<Table(W_data)>>, Combined(date_preds)),
                                        embedded.rows))} :
       \E full \in {Selected(embedded.parsed, embedded.rows)} :
          verdict' = <<[probed |-> date_preds # <<>>,
                        date_only_count |-> date_only_count,
                        short_circuit |-> date_preds # <<>> /\ date_only_count = 0,
                        df |-> IF date_preds # <<>> /\ date_only_count = 0 THEN {} ELSE full,
                        full |-> full]>>
    /\ UNCHANGED <<text, embedded>>
    /\ UNCHANGED pipeline_vars

CoverNext == probe_and_execute

CoverSpec == CoverInit /\ [][CoverNext]_vars

(***************************************************************************)
(* Both pipelines side by side: the graph in the pipeline variables, the   *)
(* locals of run_pipeline in verdict, fed the same generator outputs and   *)
(* the same engine answers                                                 *)
(***************************************************************************)
\* the locals of run_pipeline, where it stands, and the safe it reports
RunnerLocals(at, q, is_ok, rows, err, attempts, reported) ==
    [pc |-> at, sql |-> q, safe |-> is_ok, df |-> rows, error |-> err,
     repair_attempts |-> attempts, reported_safe |-> reported]

PairInit ==
    /\ pipeline = "graph"
    /\ pc = "generate"
    /\ max_repairs \in 0..MaxRepairs
    /\ \E sc \in DateScenarios : date_columns = sc.cols /\ date_bounds = sc.bounds
    /\ sql = <<>> /\ safe = FALSE /\ df = None /\ error = None
    /\ repair_attempts = 0 /\ explanation = None /\ date_range_message = None
    /\ candidate = <<>> /\ engine_calls = <<>> /\ llm_calls = 0 /\ ve_count = 0
    /\ repair_context = <<>> /\ step = "init"
    /\ text = <<>>
    /\ embedded = [in_scope |-> TRUE]
    /\ verdict = RunnerLocals("generate", <<>>, FALSE, None, None, 0, FALSE)

\* run_pipeline no longer stands where the graph stands
Diverged == [verdict EXCEPT !.pc = "diverged"]

\* runner.py 62-64 next to the generate node: the same answer, normalized
pair_generate ==
    /\ generate_node
    /\ verdict' = RunnerLocals("execute", sql', FALSE, None, None, 0, FALSE)
    /\ UNCHANGED <<text, embedded>>

\* the answer of the engine to the full query of this step, if the graph ran it
FullAnswers(calls) ==
    IF calls # <<>> /\ calls[Len(calls)].kind = "full"
    THEN {calls[Len(calls)].result}
    ELSE {"fail", "empty", "rows"}

\* runner.py 67-77, 88: one iteration of the loop on the locals, given the
\* engine's answer
loop_iteration(r, full, budget) ==
    CHOOSE out \in {
       RunnerLocals(IF error1 # None /\ r.repair_attempts < budget THEN "repair" ELSE "finish",
                    r.sql, safe1,
                    IF safe1 /\ full \in {"empty", "rows"} THEN full ELSE r.df,
                    error1, r.repair_attempts, FALSE)
       : <<safe1, error1>> \in
            {<<ok, IF ~ok THEN SafetyError ELSE IF full = "fail" THEN EngineError ELSE None>>
                : ok \in {is_safe(r.sql)}}} : TRUE

\* the candidate of this step passes validate_with_sqlglot and holds no date
\* predicate on a date column of the run
InScope(q, cols) ==
    \E validated \in {validate_with_sqlglot(q, table_name)} :
       /\ validated.ok
       /\ extract_date_predicates(validated.sql, LowerSet(cols)) = NoDatePredicate

\* the validate_and_execute node next to one iteration of the loop
pair_execute ==
    /\ validate_and_execute_node
    /\ \E full \in FullAnswers(engine_calls') :
       \E out \in {loop_iteration(verdict, full, max_repairs)} :
          verdict' = IF verdict.pc # "execute" THEN Diverged
                     ELSE IF (out.pc = "repair") # (pc' = "repair")
                     THEN [out EXCEPT !.pc = "diverged"]
                     ELSE out
    /\ embedded' = [in_scope |-> embedded.in_scope /\ InScope(sql, date_columns)]
    /\ UNCHANGED text

\* runner.py 78-87 next to the repair node: the same answer, normalized
pair_repair ==
    /\ repair_node
    /\ verdict' = IF verdict.pc # "repair" THEN Diverged
                  ELSE [verdict EXCEPT !.pc = "execute", !.sql = sql',
                                       !.repair_attempts = verdict.repair_attempts + 1]
    /\ UNCHANGED <<text, embedded>>

\* runner.py 90-133 next to the explain node
pair_explain ==
    /\ explain_node
    /\ verdict' = IF verdict.pc # "finish" THEN Diverged
                  ELSE [verdict EXCEPT !.pc = "done",
                           !.reported_safe = (verdict.error = None /\ verdict.safe = TRUE)]
    /\ UNCHANGED <<text, embedded>>

PairNext ==
    \/ pair_generate
    \/ pair_execute
    \/ pair_repair
    \/ pair_explain

PairSpec == PairInit /\ [][PairNext]_vars

(***************************************************************************)
(* Properties                                                              *)
(***************************************************************************)
InGraph == pipeline = "graph"
AfterValidate == InGraph /\ step = "validate_and_execute"

\* the table references of the candidate's first statement
TableRefs(c) == {lower(t.name) : t \in find_all(parse_one(c), "Table")}

\* a statement terminator before the final position of the text
MultiStatement(c) == Len(c) > 1 /\ Contains(SubSeq(c, 1, Len(c) - 1), <<";">>)

\* the texts between the statement terminators
RECURSIVE StatementTexts(_)
StatementTexts(s) ==
    IF ~Contains(s, <<";">>) THEN {s}
    ELSE {FirstStatement(s)} \cup StatementTexts(SubSeq(s, Len(FirstStatement(s)) + 2, Len(s)))

\* one of the statements of the text starts with a denylisted keyword
HasAdministrativeStatement(c) ==
    \E st \in StatementTexts(c) : Words(st) # <<>> /\ lower(Words(st)[1]) \in banned

\* C1: in every state the repair-attempt counter is at most the budget; a repair
\* step adds exactly one to it, the generate step sets it to 0 and no other step
\* changes it (graph and run_pipeline loop alike).
C1_RepairBudget ==
    /\ [](repair_attempts <= max_repairs)
    /\ [][/\ pc = "repair" => repair_attempts' = repair_attempts + 1
          /\ pc = "generate" => repair_attempts' = 0
          /\ pc \notin {"repair", "generate"} => repair_attempts' = repair_attempts]_vars

C1_Witness ==
    /\ step = "validate_and_execute" /\ error # None
    /\ max_repairs > 0 /\ repair_attempts = max_repairs

\* C2: the engine is called in a validate_and_execute step only for a candidate
\* that passes both the structural validator and the textual safety gate; a
\* candidate with an administrative statement is never executed, leaves the step
\* with an error and goes to repair while budget remains, to the end otherwise.
C2_ExecutedOnlyIfValidAndSafe ==
    AfterValidate =>
       /\ engine_calls # <<>> =>
             validate_with_sqlglot(candidate, table_name).ok /\ is_safe(candidate)
       /\ HasAdministrativeStatement(candidate) =>
             /\ engine_calls = <<>>
             /\ error # None
             /\ pc = (IF repair_attempts < max_repairs THEN "repair" ELSE "explain")

\* C3: a candidate with a statement terminator before its final position is
\* rejected by validate_and_execute: it is not marked safe and nothing derived
\* from it is sent to the engine.
C3_MultiStatementRejected ==
    (AfterValidate /\ MultiStatement(candidate)) =>
       /\ ~safe
       /\ error # None
       /\ engine_calls = <<>>

\* C4: a SELECT whose table references do not include the permitted table
\* (compared case-insensitively) fails with the table-mismatch error; the step
\* leaves safe false and rows absent and makes no engine call.
C4_TableMismatch ==
    (/\ AfterValidate
     /\ parse_one(candidate).node = "Select"
     /\ lower(table_name) \notin TableRefs(candidate))
    => /\ error = TableMismatchError
       /\ safe = FALSE
       /\ df = None
       /\ engine_calls = <<>>

C4_Witness ==
    /\ AfterValidate
    /\ parse_one(candidate).node = "Select"
    /\ TableRefs(candidate) # {}
    /\ lower(table_name) \notin TableRefs(candidate)
    /\ pc = "repair"

\* C5: single-table contract: a SELECT that references any table other than the
\* permitted one, whether or not it also references the permitted one, fails
\* with the table-mismatch error and is never executed.
C5_SingleTableOnly ==
    (/\ AfterValidate
     /\ parse_one(candidate).node = "Select"
     /\ TableRefs(candidate) \ {lower(table_name)} # {})
    => /\ error = TableMismatchError
       /\ engine_calls = <<>>

\* C6: a text that contains a denylisted keyword, in any letter casing and at any
\* position, is never safe.
C6_KeywordNeverSafe ==
    (verdict # <<>> /\ embedded.kw # <<>>) => verdict = <<FALSE>>

\* a keyword in mixed casing inside an identifier of a text that is safe without it
C6_Witness ==
    /\ verdict = <<FALSE>>
    /\ embedded.kw # <<>>
    /\ embedded.casing = "alternating"
    /\ embedded.pre = W_select \o <<" ", "x">>
    /\ embedded.post = <<"x">>
    /\ is_safe(embedded.pre \o embedded.post)

\* C7: once validate_and_execute ends with no error and safe true, the run goes
\* to explain and then ends: no repair follows, and explain leaves sql, rows,
\* error, safe and the counter as that step set them.
C7_SuccessIsFinal ==
    [][InGraph =>
        /\ (pc = "validate_and_execute" /\ error' = None /\ safe') => pc' = "explain"
        /\ pc = "explain" =>
              /\ pc' = "done"
              /\ UNCHANGED <<sql, df, error, safe, repair_attempts>>
        /\ pc # "done"]_vars

C7_Witness ==
    /\ InGraph /\ pc = "done"
    /\ error = None /\ safe /\ df = "rows"
    /\ repair_attempts > 0 /\ repair_attempts < max_repairs

\* C8: every run reaches done; validate_and_execute is entered at most budget+1
\* times; with an error present and the counter at the budget no repair follows
\* and that error is the one the run ends with.
C8_Terminates ==
    /\ <>(pc = "done")
    /\ [](ve_count <= max_repairs + 1)
    /\ [][InGraph =>
            /\ (pc = "validate_and_execute" /\ error' # None /\ repair_attempts = max_repairs)
                  => pc' = "explain"
            /\ pc = "explain" => (pc' = "done" /\ error' = error)]_vars

C8_Witness ==
    /\ InGraph /\ pc = "done"
    /\ error # None
    /\ max_repairs > 0 /\ repair_attempts = max_repairs
    /\ ve_count = max_repairs + 1

\* the latest validate_and_execute step ran the date probe with this result
Probed(result) ==
    /\ InGraph
    /\ engine_calls # <<>>
    /\ engine_calls[1].kind = "probe"
    /\ engine_calls[1].result = result

\* the date columns the query refers to whose minimum and maximum are both known
KnownColumns ==
    {c \in extract_date_predicates(sql, {lower(date_columns[i]) : i \in 1..Len(date_columns)}).cols :
        /\ c \in DOMAIN date_bounds
        /\ date_bounds[c][1] # None
        /\ date_bounds[c][2] # None}

ExpectedPart(c) == Str(c) \o ": " \o date_bounds[c][1] \o " to " \o date_bounds[c][2]

RECURSIVE ExpectedCoverage(_)
ExpectedCoverage(order) ==
    IF Len(order) = 1 THEN ExpectedPart(order[1])
    ELSE ExpectedPart(order[1]) \o "; " \o ExpectedCoverage(Tail(order))

ExpectedMessage(order) ==
    IF order = <<>> THEN "Date range is not provided in the dataset."
    ELSE "Date range is not provided in the dataset. Available date coverage -> "
         \o ExpectedCoverage(order)

\* C9: when the date probe of a safe candidate counts 0, the full query is not
\* executed; rows are present and empty, error is absent, safe is true and the
\* message is the fixed text plus "<column>: <min> to <max>" for exactly the
\* referenced date columns with both bounds known; the run then ends with that
\* message as the explanation and no generator call for an explanation.
C9_ShortCircuit ==
    Probed("zero") =>
       /\ Len(engine_calls) = 1
       /\ df = "empty" /\ error = None /\ safe = TRUE
       /\ \E order \in Orders(KnownColumns) : date_range_message = ExpectedMessage(order)
       /\ step \in {"validate_and_execute", "explain"}
       /\ step = "validate_and_execute" => pc = "explain"
       /\ step = "explain" =>
             /\ pc = "done"
             /\ explanation = date_range_message
             /\ llm_calls = repair_attempts + 1

\* two referenced date columns, only one with known bounds
C9_Witness ==
    /\ Probed("zero") /\ pc = "done"
    /\ Cardinality(KnownColumns) = 1
    /\ Cardinality(extract_date_predicates(sql, {W_col_date, W_col_ts}).cols) = 2
    /\ explanation = date_range_message

\* C10: when the date probe raises, the step goes on as without a date predicate:
\* the full canonical query is executed, error is present exactly when the full
\* query fails, and a message is set only by the fallback for an empty result.
C10_ProbeFailureSwallowed ==
    (Probed("fail") /\ step = "validate_and_execute") =>
       /\ Len(engine_calls) = 2
       /\ engine_calls[2].kind = "full"
       /\ engine_calls[2].sql = sql
       /\ safe = TRUE
       /\ error = (IF engine_calls[2].result = "fail" THEN EngineError ELSE None)
       /\ df = (IF engine_calls[2].result = "fail" THEN None ELSE engine_calls[2].result)
       /\ date_range_message # None => engine_calls[2].result = "empty"

C10_Witness ==
    /\ Probed("fail") /\ step = "validate_and_execute"
    /\ Len(engine_calls) = 2
    /\ engine_calls[2].result = "rows"
    /\ error = None /\ df = "rows"

\* the latest validate_and_execute step ran the full query after the date probe
\* counted rows or failed, and the full query returned no rows
EmptyAfterProbe ==
    /\ (Probed("some") \/ Probed("fail"))
    /\ Len(engine_calls) = 2
    /\ engine_calls[2].kind = "full"
    /\ engine_calls[2].result = "empty"

\* C11: when the full query returns no rows, a date predicate was extracted and
\* the short-circuit did not fire, validate_and_execute sets the message the
\* short-circuit would have produced for the referenced columns' bounds, also when
\* no referenced column has known bounds; the explanation is then that message.
C11_FallbackSameMessage ==
    EmptyAfterProbe =>
       /\ \E order \in Orders(KnownColumns) : date_range_message = ExpectedMessage(order)
       /\ step = "explain" => explanation = date_range_message

\* C12: when the message is present as explain is entered, the explanation the
\* run ends with is the message and explain makes no generator call; a step that
\* sets the message leads to explain, so a generated explanation and a message
\* never occur in the same run.
C12_DiagnosticWins ==
    /\ [][InGraph =>
            /\ (pc = "explain" /\ date_range_message # None) =>
                  /\ explanation' = date_range_message
                  /\ llm_calls' = llm_calls
                  /\ date_range_message' = date_range_message
            /\ (pc = "validate_and_execute" /\ date_range_message' # None) => pc' = "explain"
            /\ pc = "repair" => date_range_message = None]_vars
    /\ []((InGraph /\ explanation = LlmExplanation) => date_range_message = None)

\* a run that was repaired and then ended with the message of the fallback
C12_Witness ==
    /\ InGraph /\ pc = "done"
    /\ EmptyAfterProbe
    /\ date_range_message # None
    /\ explanation = date_range_message
    /\ llm_calls = repair_attempts + 1
    /\ repair_attempts > 0

\* the text the latest validate/execute step worked on: the candidate itself, or
\* the canonical form the validator gave it
LastAttempted(q) ==
    \/ q = candidate
    \/ /\ InGraph
       /\ validate_with_sqlglot(candidate, table_name).ok
       /\ q = validate_with_sqlglot(candidate, table_name).sql

\* C13: an error is never present together with rows (graph and run_pipeline
\* loop alike), and a run that ends with an error ends with the counter at the
\* budget, the error and the text of its last validate/execute step, rows absent.
C13_NoRowsWithError ==
    /\ error # None => df = None
    /\ (pc = "done" /\ error # None) =>
          /\ repair_attempts = max_repairs
          /\ LastAttempted(sql)
          /\ df = None

\* a repaired run that ends with the engine's error on the canonical text
C13_Witness ==
    /\ InGraph /\ pc = "done"
    /\ error = EngineError
    /\ max_repairs > 0 /\ repair_attempts = max_repairs
    /\ sql # candidate
    /\ df = None

\* the latest validate/execute step ran the full query and the engine raised
FullQueryFailed(calls) ==
    /\ calls # <<>>
    /\ calls[Len(calls)].kind = "full"
    /\ calls[Len(calls)].result = "fail"

\* C14: a validate/execute step leaves the error of the failure it met (no
\* parse, not a SELECT or a command, table not referenced, text refused by
\* is_safe, engine failure of the full query); with the counter below the budget
\* the repair node is next, it hands the failing text and that error to
\* repair_sql, and the run never reaches explain with an error and budget left.
C14_FailuresLeadToRepair ==
    /\ [][(InGraph /\ pc = "validate_and_execute") =>
            \E v \in {validate_with_sqlglot(sql, table_name)} :
               /\ ~v.ok =>
                     /\ v.error \in {SqlglotParseError, NotSelectError, CommandError,
                                     TableMismatchError}
                     /\ error' = v.error
               /\ (v.ok /\ ~is_safe(v.sql)) => error' = SafetyError
               /\ FullQueryFailed(engine_calls') => error' = EngineError
               /\ (error' # None /\ repair_attempts < max_repairs) => pc' = "repair"]_vars
    /\ [][(InGraph /\ pc = "repair") =>
            /\ error # None
            /\ LastAttempted(sql)
            /\ repair_context' = RepairContext(sql, error)
            /\ pc' = "validate_and_execute"]_vars
    /\ []((InGraph /\ pc \in {"explain", "done"} /\ error # None)
             => repair_attempts = max_repairs)

\* a repair that was handed the canonical text and the engine's error
C14_Witness ==
    /\ InGraph /\ step = "repair"
    /\ repair_context # <<>>
    /\ repair_context.error = EngineError
    /\ repair_context.previous_sql # candidate
    /\ LastAttempted(repair_context.previous_sql)
    /\ FullQueryFailed(engine_calls)
    /\ repair_attempts = 1

\* the latest validate/execute step ran the full query only, no probe before it
\* (no date predicate was extracted), and the engine returned no rows
EmptyWithoutProbe ==
    /\ InGraph
    /\ Len(engine_calls) = 1
    /\ engine_calls[1].kind = "full"
    /\ engine_calls[1].result = "empty"

\* C15: a validated, safe query with no extracted date predicate whose execution
\* returns no rows goes to explain with no date_range_message, and explain sets
\* the explanation to "Query returned no rows." without invoking the generator.
C15_NoRowsMessage ==
    /\ [](EmptyWithoutProbe =>
             /\ safe /\ error = None /\ df = "empty"
             /\ date_range_message = None
             /\ pc \in {"explain", "done"}
             /\ pc = "done" => explanation = NoRowsExplanation)
    /\ [][(EmptyWithoutProbe /\ pc = "explain") =>
             /\ explanation' = NoRowsExplanation
             /\ llm_calls' = llm_calls
             /\ pc' = "done"]_vars

\* such a run at its end, with date columns known to the state
C15_Witness ==
    /\ EmptyWithoutProbe
    /\ pc = "done"
    /\ date_columns # <<>>
    /\ explanation = NoRowsExplanation
    /\ date_range_message = None
    /\ llm_calls = repair_attempts + 1

\* C16: normalize_sql is idempotent: applied to its own result, with the same
\* table name, it returns that result.
C16_Idempotent ==
    Len(verdict) = 2 => verdict[2] = verdict[1]

\* C17: the steps of the graph are exactly its edges: generate to
\* validate_and_execute with repair_attempts 0; validate_and_execute to repair
\* when the error it leaves is present and repair_attempts < max_repairs, to
\* explain otherwise; repair to validate_and_execute; explain to the end, from
\* which no step is taken. explain is entered from validate_and_execute only and
\* left for the end only, so a finished run has run it once.
C17_TransitionRelation ==
    /\ [][InGraph =>
            /\ pc \in {"generate", "validate_and_execute", "repair", "explain"}
            /\ pc = "generate" =>
                  /\ pc' = "validate_and_execute"
                  /\ repair_attempts' = 0
            /\ pc = "validate_and_execute" =>
                  /\ repair_attempts' = repair_attempts
                  /\ pc' = "repair" <=> (error' # None /\ repair_attempts < max_repairs)
                  /\ pc' # "repair" => pc' = "explain"
            /\ pc = "repair" => pc' = "validate_and_execute"
            /\ pc = "explain" => pc' = "done"
            /\ pc' = "explain" => pc = "validate_and_execute"
            /\ step' = pc]_vars
    /\ [](InGraph =>
            /\ pc \in {"generate", "validate_and_execute", "repair", "explain", "done"}
            /\ pc = "done" <=> step = "explain"
            /\ step = "init" <=> pc = "generate")

\* a finished run that went generate, validate_and_execute, repair,
\* validate_and_execute, explain, with budget left at the end
C17_Witness ==
    /\ InGraph /\ pc = "done" /\ step = "explain"
    /\ max_repairs = 2 /\ repair_attempts = 1
    /\ ve_count = 2 /\ error = None
    /\ llm_calls >= 2

\* what normalize_sql makes of the generator's answers
NormalizedOutputs == {normalize_sql(raw, table_name) : raw \in RawOutputs}

\* C18: a repair step sets sql to a normalized generator output, safe to false,
\* df and error to None, and adds one to repair_attempts; it leaves
\* date_columns, date_bounds, max_repairs and explanation as they were (the
\* table name is fixed for the run), and it starts from a state whose
\* date_range_message is None.
C18_RepairFrame ==
    [][(InGraph /\ pc = "repair") =>
          /\ sql' \in NormalizedOutputs
          /\ safe' = FALSE
          /\ df' = None
          /\ error' = None
          /\ repair_attempts' = repair_attempts + 1
          /\ UNCHANGED <<date_columns, date_bounds, max_repairs, explanation>>
          /\ date_range_message = None]_vars

\* the state after a second repair that replaced a query the validator refused
C18_Witness ==
    /\ InGraph /\ step = "repair"
    /\ repair_attempts = 2
    /\ repair_context.error = TableMismatchError
    /\ sql # repair_context.previous_sql
    /\ sql \in NormalizedOutputs
    /\ ~safe /\ df = None /\ error = None
    /\ date_columns # <<>>

\* the nodes of a tree, each with the path of child positions that leads to it
RECURSIVE NodesAt(_, _)
NodesAt(e, path) ==
    {<<path, e>>}
    \cup UNION {NodesAt(Children(e)[i], Append(path, i)) : i \in 1..Len(Children(e))}

\* the lower-cased names of the known date columns that occur in a node
DateColumnsOf(e, date_cols) ==
    {lower(pn[2].name) : pn \in {qn \in NodesAt(e, <<>>) : qn[2].node = "Column"}} \cap date_cols

\* the equality, ordering and between nodes of the where clause that refer to a
\* known date column
Qualifying(where, date_cols) ==
    {pn \in NodesAt(where, <<>>) :
        /\ pn[2].node \in {"EQ", "GT", "GTE", "LT", "LTE", "Between"}
        /\ DateColumnsOf(pn[2], date_cols) # {}}

IsProperPrefix(p, q) == Len(p) < Len(q) /\ SubSeq(q, 1, Len(p)) = p

\* those of them that lie in no other one
Outermost(where, date_cols) ==
    {pn \in Qualifying(where, date_cols) :
        \A qn \in Qualifying(where, date_cols) : ~IsProperPrefix(qn[1], pn[1])}

\* p comes before q in the order of the text (neither is a prefix of the other)
PathBefore(p, q) ==
    \E i \in 1..Len(p) :
       /\ i <= Len(q)
       /\ SubSeq(p, 1, i - 1) = SubSeq(q, 1, i - 1)
       /\ p[i] < q[i]

\* the outermost nodes from left to right
OutermostInOrder(where, date_cols) ==
    CHOOSE o \in Orders(Outermost(where, date_cols)) :
        \A i, j \in 1..Len(o) : i < j => PathBefore(o[i][1], o[j][1])

\* C20: _extract_date_predicates returns nothing exactly when there is no where
\* clause or no equality, ordering or between node under it refers to a known
\* date column (names compared in lower case); otherwise it returns the AND of
\* the outermost such nodes, and the known date columns those nodes refer to.
\* Nodes of other kinds (<>, IN, IS NULL, NOT, AND, OR) are not collected.
C20_OutermostDatePredicates ==
    verdict # <<>> =>
       \E where \in {embedded.parsed.where}, date_cols \in {embedded.date_cols} :
          /\ verdict[1] = NoDatePredicate
                <=> (where = NoWhere \/ Qualifying(where, date_cols) = {})
          /\ verdict[1] # NoDatePredicate =>
                \E o \in {OutermostInOrder(where, date_cols)} :
                   /\ verdict[1].sql = sql_of(Combined([i \in 1..Len(o) |-> o[i][2]]))
                   /\ verdict[1].cols =
                         UNION {DateColumnsOf(o[i][2], date_cols) : i \in 1..Len(o)}

\* C19: when the short circuit fires (the date predicates alone match no row, and
\* an empty result is returned without running the full query), the full query
\* on the same table returns no row either, whatever the shape of the where
\* clause: OR, NOT and subqueries included.
C19_ShortCircuitSound ==
    (verdict # <<>> /\ verdict[1].short_circuit) => verdict[1].full = {}

\* where run_pipeline stands when the graph stands at a node
RunnerAt(node) ==
    CASE node = "generate" -> "generate"
      [] node = "validate_and_execute" -> "execute"
      [] node = "repair" -> "repair"
      [] node = "explain" -> "finish"
      [] node = "done" -> "done"

\* C21: fed the same generator outputs and engine answers, with every candidate
\* so far passing validate_with_sqlglot and holding no date predicate,
\* run_pipeline and the graph take the same execute/repair decisions and end
\* with the same repair_attempts, error, presence of rows and reported safe.
C21_SameDecisions ==
    embedded.in_scope =>
       /\ verdict.pc = RunnerAt(pc)
       /\ verdict.repair_attempts = repair_attempts
       /\ pc = "done" =>
             /\ verdict.error = error
             /\ (verdict.df = None) <=> (df = None)
             /\ verdict.reported_safe = safe

\* C22: from a validate_and_execute step on, a date_range_message comes with no
\* error, safe true and an empty frame of rows; no error comes with safe true
\* and rows present. So no message reaches the repair node, nor a state with an
\* error.
C22_MessageWithoutError ==
    InGraph =>
       /\ step \in {"validate_and_execute", "explain"} =>
             /\ date_range_message # None => (error = None /\ safe /\ df = "empty")
             /\ error = None => (safe /\ df # None)
       /\ pc = "repair" => date_range_message = None
       /\ error # None => date_range_message = None

\* a second validate_and_execute step that left the fallback message after a
\* full query without rows
C22_Witness ==
    /\ AfterValidate /\ pc = "explain"
    /\ ve_count = 2
    /\ EmptyAfterProbe
    /\ date_range_message # None
    /\ error = None /\ safe /\ df = "empty"

\* C23: in a run of the graph the generator has been invoked once for generate
\* and once per repair when explain starts; explain invokes it once more exactly
\* when rows are present, not empty, and there is no date_range_message, else
\* not at all. So a run makes at most max_repairs + 2 invocations, and one that
\* ends with an error makes none in explain and ends with no explanation.
C23_GeneratorCalls ==
    /\ [](InGraph =>
            /\ pc = "generate" => llm_calls = 0
            /\ pc \in {"validate_and_execute", "repair", "explain"} =>
                  llm_calls = 1 + repair_attempts
            /\ llm_calls <= max_repairs + 2
            /\ (pc = "done" /\ error # None) =>
                  /\ llm_calls = 1 + repair_attempts
                  /\ explanation = None)
    /\ [][(InGraph /\ pc = "explain") =>
            llm_calls' = llm_calls +
               (IF df = "rows" /\ date_range_message = None THEN 1 ELSE 0)]_vars

\* a finished run with two repairs and an explanation by the generator: the most
\* invocations a run can make
C23_Witness ==
    /\ InGraph /\ pc = "done"
    /\ max_repairs = 2 /\ repair_attempts = 2
    /\ llm_calls = max_repairs + 2
    /\ explanation = LlmExplanation
    /\ df = "rows"

====
